---- MODULE Spec2Model ----
(***************************************************************************)
(* SayWith Manager: the record synchronisation workflow (create, fetch,   *)
(* partial update against the keyed store and the blob store), the text   *)
(* post-processor and the extension derivation.                           *)
(***************************************************************************)
EXTENDS Integers, Sequences, FiniteSets, TLC

VARIABLES
  fn, arg, res,                       \* function under test, its input, its result
  isUnlocked, pin, storageProvider,   \* Home and LockScreen state
  savedProvider,                      \* localStorage item "storageProvider"
  tab,                                \* selected tab of Home
  createRev, editRev,                 \* which revision of each form the page runs
  db, nextKey, reserved, created,     \* keyed store "Saywith", push counter, keys handed
                                      \* out, what each create wrote (until updated)
  createForm, createFiles, isLoading, showSuccessDialog, newId, formName, qrCodes,
  cq,                                 \* create submits in flight
  id, loadedData, editForm, formDefaults, editFiles, srtContent, isFetching, isUpdating,
  fq, uq,                             \* fetches and edit submits in flight
  nOps,                               \* submits and loads the operator has started
  last                                \* the handler run that ended last, with its outcome

pureVars   == <<fn, arg, res>>
homeVars   == <<isUnlocked, pin, storageProvider, savedProvider, tab, createRev, editRev>>
storeVars  == <<db, nextKey, reserved, created>>
createVars == <<createForm, createFiles, isLoading, showSuccessDialog, newId, formName,
                qrCodes, cq>>
editVars   == <<id, loadedData, editForm, formDefaults, editFiles, srtContent, isFetching,
                isUpdating, fq, uq>>
vars       == <<pureVars, homeVars, storeVars, createVars, editVars, last, nOps>>

\* The handler runs that have started and not ended.
InFlight == Len(cq) + Len(fq) + Len(uq)

----------------------------------------------------------------------------
(* Text post-processor: srtContent.replace(/<watermark>/g, "made by SayWith") *)

\* The watermark phrase of the regular expression, character by character.
Watermark ==
  <<"T", "r", "a", "n", "s", "c", "r", "i", "b", "e", "d", " ", "b", "y", " ",
    "T", "u", "r", "b", "o", "S", "c", "r", "i", "b", "e", ".", "a", "i", ".",
    " ", "G", "o", " ", "U", "n", "l", "i", "m", "i", "t", "e", "d", " ", "t",
    "o", " ", "r", "e", "m", "o", "v", "e", " ", "t", "h", "i", "s", " ", "m",
    "e", "s", "s", "a", "g", "e">>

\* The replacement phrase "made by SayWith".
Replacement ==
  <<"m", "a", "d", "e", " ", "b", "y", " ", "S", "a", "y", "W", "i", "t", "h">>

\* TRUE iff pat occurs in t at position i (1-based): the first characters are
\* compared before the rest.
MatchesAt(t, pat, i) ==
  /\ i >= 1
  /\ i + Len(pat) - 1 <= Len(t)
  /\ Len(pat) = 0 \/ t[i] = pat[1]
  /\ SubSeq(t, i, i + Len(pat) - 1) = pat

\* TRUE iff pat occurs somewhere in t.
Contains(t, pat) == \E i \in 1..Len(t) : MatchesAt(t, pat, i)

\* TRUE iff the first occurrence of pat in t at or after i is at j.
FirstMatchAt(t, pat, i, j) ==
  /\ MatchesAt(t, pat, j)
  /\ \A k \in i..(j - 1) : ~MatchesAt(t, pat, k)

\* The position of the first occurrence of pat in t at or after i, 0 when
\* there is none.
FirstMatch(t, pat, i) ==
  IF \E j \in i..Len(t) : MatchesAt(t, pat, j)
  THEN CHOOSE j \in i..Len(t) : FirstMatchAt(t, pat, i, j)
  ELSE 0

RECURSIVE ReplaceFrom(_, _, _, _)
\* String.prototype.replace with a global regular expression of a literal:
\* scan left to right, replace each match and resume after it.
ReplaceFrom(t, pat, rep, i) ==
  LET j == FirstMatch(t, pat, i) IN
  IF j = 0 THEN SubSeq(t, i, Len(t))
  ELSE SubSeq(t, i, j - 1) \o rep \o ReplaceFrom(t, pat, rep, j + Len(pat))

\* The replacement without the g flag: only the first occurrence is replaced.
replaceWatermarkFirstOnly(t) ==
  LET i == FirstMatch(t, Watermark, 1) IN
  IF i = 0 THEN t
  ELSE SubSeq(t, 1, i - 1) \o Replacement
         \o SubSeq(t, i + Len(Watermark), Len(t))

\* text.replace(/Transcribed by TurboScribe\.ai\. Go Unlimited to remove this message/g, "made by SayWith")
replaceWatermark(t) == ReplaceFrom(t, Watermark, Replacement, 1)

----------------------------------------------------------------------------
(* getFileExtension: filename.slice(((filename.lastIndexOf(".") - 1) >>> 0) + 2) *)

RECURSIVE lastIndexOfFrom(_, _, _)
lastIndexOfFrom(s, c, i) ==
  IF i = 0 THEN -1
  ELSE IF s[i] = c THEN i - 1 ELSE lastIndexOfFrom(s, c, i - 1)

\* String.prototype.lastIndexOf: 0-based index of the last c, -1 when absent.
lastIndexOf(s, c) == lastIndexOfFrom(s, c, Len(s))

Limb == 65536

\* x >>> 0 (ToUint32) for x >= -Limb, as two 16-bit limbs <<high, low>>:
\* the value is high * 2^16 + low, which does not fit a 32-bit signed integer.
ushr0(x) == IF x >= 0 THEN <<x \div Limb, x % Limb>> ELSE <<Limb - 1, Limb + x>>

\* u + n on the limb representation; the sum is a number, it does not wrap.
plus(u, n) == <<u[1] + ((u[2] + n) \div Limb), (u[2] + n) % Limb>>

\* String.prototype.slice(start) for a start given in limbs: a start at or
\* beyond the length yields the empty string.
slice(s, u) ==
  LET start == IF u[1] > 0 \/ u[2] > Len(s) THEN Len(s) ELSE u[2]
  IN  SubSeq(s, start + 1, Len(s))

\* The derivation written without the unsigned shift: slice(lastIndexOf + 1).
getFileExtensionNaive(filename) ==
  SubSeq(filename, lastIndexOf(filename, ".") + 2, Len(filename))

getFileExtension(filename) ==
  slice(filename, plus(ushr0(lastIndexOf(filename, ".") - 1), 2))

----------------------------------------------------------------------------
(* Bounds and the small sets the inputs are drawn from *)

MaxOps == 3        \* submits and loads the operator starts in one run
MaxInFlight == 2   \* submits and loads in flight at the same time
MaxDetached == 0   \* handler runs left in flight by a form that is unmounted
MaxFrags == 2      \* fragments a text given to replaceWatermark is made of
MaxNameLen == 4    \* characters of a filename given to getFileExtension

Null == <<>>          \* null / absent: no record, no file, the empty update map
NoFile == <<>>
EmptyText == <<>>     \* the empty string of a text or URL field

\* Keys handed out by push(), in order; "zzz" is an identifier never handed out.
Keys == <<"-K1", "-K2", "-K3", "-K4", "-K5", "-K6">>
TypedIds == {"zzz"}
Ids == {Keys[n] : n \in 1..Len(Keys)} \cup TypedIds

MediaFile == [name |-> <<"c", "l", "i", "p", ".", "f", "i", "n", "a", "l", ".", "m", "p", "4">>, type |-> "video/mp4"]
AudioFile == [name |-> <<"v", "o", "i", "c", "e", ".", "m", "p", "3">>, type |-> "audio/mpeg"]

\* What the subtitle file the operator can choose holds, and what the operator
\* can type in the text area: two watermark lines.
WatermarkedText == Watermark \o <<"\n">> \o Watermark
SrtFile == [name |-> <<"s", "u", "b", "s", ".", "s", "r", "t">>, type |-> "text/plain", text |-> WatermarkedText]

\* Form values the operator can enter in the create form.
defaultValues == [name |-> "", template |-> "", enabled |-> FALSE, mute |-> FALSE]
PromoValues == [name |-> "Promo", template |-> "template1", enabled |-> FALSE, mute |-> FALSE]
FlagValues == [name |-> "", template |-> "", enabled |-> TRUE, mute |-> TRUE]

baseUrl == "https://saywith.com/"
correctPin == "1234"
Pins == {"1234", "0000"}

----------------------------------------------------------------------------
(* Helpers: maps, sequences, the two external stores *)

\* An update that replaces the value at the key, as set() does.
MergeReplacing(old, upd) == upd

Merge(old, upd) ==
  [k \in DOMAIN old \cup DOMAIN upd |-> IF k \in DOMAIN upd THEN upd[k] ELSE old[k]]

RemoveAt(q, i) == SubSeq(q, 1, i - 1) \o SubSeq(q, i + 1, Len(q))

\* A push that hands out one and the same key.
pushSameKey(n) == Keys[1]

\* push(ref).key: the n-th key handed out by the store.
push(n) == Keys[n]

\* A store that drops empty-string children, as it does null children.
setDroppingEmpty(value) ==
  [k \in {j \in DOMAIN value :
             /\ j \in {"name", "template"} => value[j] # ""
             /\ j \in {"mediaUrl", "audioUrl", "srtContent", "srtUrl"} => value[j] # EmptyText}
     |-> value[k]]

\* set(ref, value): the value kept at the key; every child here is a string or
\* a boolean, and the empty string is a value like any other.
set(value) == value

\* storageRef(storage, `messages/${id}/${role}.${extension}`)
storagePath(recordId, role, file) == <<"messages", recordId, role, getFileExtension(file.name)>>

\* getDownloadURL(fileRef): a non-empty URL naming the path.
getDownloadURL(path) == <<"https://storage">> \o path

\* The URL the custom backend reports for a file slot of a folder.
customURL(folder, slot) == <<"https://giit-upload", folder, slot>>

\* The message of the Error thrown on a non-ok response, always the fallback.
uploadErrorFallbackOnly(body) == "Upload failed"

\* new Error(errorData.error || 'Upload failed')
uploadErrorMessage(body) ==
  IF "error" \in DOMAIN body /\ body.error # "" THEN body.error ELSE "Upload failed"

\* Bodies the upload endpoint can answer an accepted request with: a URL for
\* each file sent, or none for the first.
OkBodies(hasMedia, hasAudio, folder) ==
  { [file1URL |-> u1,
     file2URL |-> IF hasAudio THEN customURL(folder, "file2") ELSE EmptyText] :
      u1 \in (IF hasMedia THEN {EmptyText, customURL(folder, "file1")} ELSE {EmptyText}) }
ErrorBodies == { [error |-> "disk full"], [error |-> ""] }

\* How a multipart POST can end: an ok response with a body, a non-ok response
\* with a JSON body, no response.
Responses(hasMedia, hasAudio, folder) ==
  {[kind |-> "ok", body |-> b] : b \in OkBodies(hasMedia, hasAudio, folder)}
  \cup {[kind |-> "notOk", body |-> b] : b \in ErrorBodies}
  \cup {[kind |-> "network", body |-> Null]}

responseError(r) ==
  IF r.kind = "notOk" THEN uploadErrorMessage(r.body) ELSE "Failed to fetch"

----------------------------------------------------------------------------
(* CreateForm: onSubmit, one action per stretch between two awaits *)

initialFiles == [media |-> NoFile, audio |-> NoFile, srt |-> NoFile]

\* State updates of a form that is no longer mounted are dropped.
IfMounted(w, new, old) == IF w.mounted THEN new ELSE old

\* The files a submit uploads to the managed object store, in the order of the code.
FirebaseFiles(w) ==
  (IF w.media # NoFile THEN << <<"media", w.media>> >> ELSE <<>>)
  \o (IF w.audio # NoFile THEN << <<"audio", w.audio>> >> ELSE <<>>)
  \o (IF createRev = "srtUrl" /\ w.srt # NoFile THEN << <<"srt", w.srt>> >> ELSE <<>>)

\* An upload step entered whether or not a file was chosen.
NeedsUploadAlways(w) == TRUE

NeedsUpload(w) ==
  IF w.provider = "firebase" THEN FirebaseFiles(w) # <<>>
  ELSE w.media # NoFile \/ w.audio # NoFile

\* new File([file], `${role}.${extension}`, { type: file.type }); the later
\* revision of the create form names it `${role}-${timestamp}.${extension}`.
renamedFile(role, file, stamped) ==
  IF file = NoFile THEN NoFile
  ELSE [name |-> (IF stamped THEN <<role, "-", "Date.now()", ".">> ELSE <<role, ".">>)
                 \o getFileExtension(file.name),
        type |-> file.type]

\* A multipart request with the two file fields exchanged.
multipartRequestSwapped(folder, media, audio, stamped) ==
  [mode |-> "custom", folder |-> folder,
   file1 |-> renamedFile("audio", audio, stamped),
   file2 |-> renamedFile("media", media, stamped)]

\* The multipart request of the custom backend: folder, file1, file2.
multipartRequest(folder, media, audio, stamped) ==
  [mode |-> "custom", folder |-> folder,
   file1 |-> renamedFile("media", media, stamped),
   file2 |-> renamedFile("audio", audio, stamped)]

uploadBytesCall(path, file) == [mode |-> "firebase", path |-> path, type |-> file.type]

\* A catch block that shows no notification.
CreateEndedSilently(w, outcome, error) ==
  [op |-> "onSubmit", outcome |-> outcome, error |-> error, toast |-> "",
   uniqueId |-> w.uniqueId, values |-> w.values,
   media |-> w.media, audio |-> w.audio, srt |-> w.srt, provider |-> w.provider,
   calls |-> w.calls, response |-> w.response, written |-> w.written]

CreateEnded(w, outcome, error) ==
  [op |-> "onSubmit", outcome |-> outcome, error |-> error,
   toast |-> IF outcome = "success" THEN "" ELSE "Uh oh! Something went wrong.",
   uniqueId |-> w.uniqueId, values |-> w.values,
   media |-> w.media, audio |-> w.audio, srt |-> w.srt, provider |-> w.provider,
   calls |-> w.calls, response |-> w.response, written |-> w.written]

\* catch (error) { console.error; toast(...) } finally { setIsLoading(false) }
CreateCatch(i, w, error) ==
  /\ isLoading' = IfMounted(w, FALSE, isLoading)
  /\ cq' = RemoveAt(cq, i)
  /\ last' = CreateEnded(w, "failed", error)

\* A success block that shows the dialog and leaves the form as it is.
CreateSuccessKeeping(i, w) ==
  /\ showSuccessDialog' = IfMounted(w, TRUE, showSuccessDialog)
  /\ UNCHANGED <<createForm, createFiles>>
  /\ isLoading' = IfMounted(w, FALSE, isLoading)
  /\ cq' = RemoveAt(cq, i)
  /\ last' = CreateEnded(w, "success", "")

\* setShowSuccessDialog(true); form.reset(...); setMediaFile(null); ... finally
CreateSuccess(i, w) ==
  /\ showSuccessDialog' = IfMounted(w, TRUE, showSuccessDialog)
  /\ createForm' = IfMounted(w, defaultValues, createForm)
  /\ createFiles' = IfMounted(w, initialFiles, createFiles)
  /\ isLoading' = IfMounted(w, FALSE, isLoading)
  /\ cq' = RemoveAt(cq, i)
  /\ last' = CreateEnded(w, "success", "")

\* The operator fills in the form, chooses files and submits: form.handleSubmit
\* takes the values; onSubmit runs once validation has resolved.
handleSubmit(values, files) ==
  /\ isUnlocked /\ tab = "create"
  /\ ~isLoading /\ ~showSuccessDialog
  /\ nOps < MaxOps /\ InFlight < MaxInFlight
  /\ nOps' = nOps + 1
  /\ createForm' = values
  /\ createFiles' = files
  /\ cq' = Append(cq, [pc |-> "begin", values |-> values, media |-> files.media,
                       audio |-> files.audio, srt |-> files.srt,
                       provider |-> storageProvider, mounted |-> TRUE,
                       uniqueId |-> "", mediaUrl |-> EmptyText, audioUrl |-> EmptyText,
                       srtUrl |-> EmptyText, calls |-> {}, response |-> Null,
                       written |-> Null])
  /\ UNCHANGED <<pureVars, homeVars, storeVars, editVars, last, isLoading,
                 showSuccessDialog, newId, formName, qrCodes>>

\* setIsLoading(true); push(saywithRef); setNewId(uniqueId); setFormName(...)
onSubmit_begin(i) ==
  LET w == cq[i]
      uniqueId == push(nextKey + 1)
      w1 == [w EXCEPT !.uniqueId = uniqueId]
  IN
  /\ w.pc = "begin"
  /\ nextKey' = nextKey + 1
  /\ reserved' = Append(reserved, uniqueId)
  /\ isLoading' = IfMounted(w, TRUE, isLoading)
  /\ newId' = IfMounted(w, uniqueId, newId)
  /\ formName' = IfMounted(w, IF createRev = "qr" THEN w.values.name ELSE formName, formName)
  /\ cq' = [cq EXCEPT ![i] = [w1 EXCEPT !.pc = IF NeedsUpload(w1) THEN "upload" ELSE "write"]]
  /\ UNCHANGED <<pureVars, homeVars, db, created, editVars, nOps, last, createForm,
                 createFiles, showSuccessDialog, qrCodes>>

\* storageProvider === "firebase": uploadBytes and getDownloadURL for each file;
\* n is the number of uploadBytes calls issued, ok whether all of them and every
\* getDownloadURL succeeded.
onSubmit_uploadFirebase(i, n, ok) ==
  LET w == cq[i]
      files == FirebaseFiles(w)
      issued == {uploadBytesCall(storagePath(w.uniqueId, files[j][1], files[j][2]),
                                 files[j][2]) : j \in 1..n}
      url(role, file) == IF file # NoFile /\ (role # "srt" \/ createRev = "srtUrl")
                         THEN getDownloadURL(storagePath(w.uniqueId, role, file))
                         ELSE EmptyText
      w1 == [w EXCEPT !.calls = issued]
  IN
  /\ w.pc = "upload" /\ w.provider = "firebase"
  /\ n \in 1..Len(files)
  /\ ok => n = Len(files)
  /\ IF ok
     THEN /\ cq' = [cq EXCEPT ![i] = [w1 EXCEPT !.pc = "write",
                                               !.mediaUrl = url("media", w.media),
                                               !.audioUrl = url("audio", w.audio),
                                               !.srtUrl = url("srt", w.srt)]]
          /\ UNCHANGED <<isLoading, last>>
     ELSE CreateCatch(i, w1, "storage/unknown")
  /\ UNCHANGED <<pureVars, homeVars, storeVars, editVars, nOps, createForm, createFiles,
                 showSuccessDialog, newId, formName, qrCodes>>

\* custom backend: one multipart POST; r is how the request ends.
onSubmit_uploadCustom(i, r) ==
  LET w == cq[i]
      w1 == [w EXCEPT !.calls = {multipartRequest(w.uniqueId, w.media, w.audio,
                                                  createRev = "srtUrl")},
                      !.response = r]
  IN
  /\ w.pc = "upload" /\ w.provider = "custom"
  /\ r \in Responses(w.media # NoFile, w.audio # NoFile, w.uniqueId)
  /\ IF r.kind = "ok"
     THEN /\ cq' = [cq EXCEPT ![i] =
                 [w1 EXCEPT !.pc = "write",
                            !.mediaUrl = IF r.body.file1URL # EmptyText
                                         THEN r.body.file1URL ELSE @,
                            !.audioUrl = IF r.body.file2URL # EmptyText
                                         THEN r.body.file2URL ELSE @]]
          /\ UNCHANGED <<isLoading, last>>
     ELSE CreateCatch(i, w1, responseError(r))
  /\ UNCHANGED <<pureVars, homeVars, storeVars, editVars, nOps, createForm, createFiles,
                 showSuccessDialog, newId, formName, qrCodes>>

\* A record written with the URLs as they were before the uploads.
recordWithoutUrls(w, text) ==
  [name |-> w.values.name, template |-> w.values.template, enabled |-> w.values.enabled,
   mute |-> w.values.mute, mediaUrl |-> EmptyText, audioUrl |-> EmptyText,
   srtContent |-> text]

\* The record of the first revision: { ...values, mediaUrl, audioUrl, srtContent }
recordWithContent(w, text) ==
  [name |-> w.values.name, template |-> w.values.template, enabled |-> w.values.enabled,
   mute |-> w.values.mute, mediaUrl |-> w.mediaUrl, audioUrl |-> w.audioUrl,
   srtContent |-> text]

\* The record of the later revision: { ...values, mediaUrl, audioUrl, srtUrl }
recordWithUrl(w) ==
  [name |-> w.values.name, template |-> w.values.template, enabled |-> w.values.enabled,
   mute |-> w.values.mute, mediaUrl |-> w.mediaUrl, audioUrl |-> w.audioUrl,
   srtUrl |-> w.srtUrl]

\* readFileAsText(srtFile), the watermark replacement and set(newSaywithRef, ...);
\* in the later revision nothing is awaited after set, so the submit ends here.
onSubmit_write(i, outcome) ==
  LET w == cq[i]
      text == IF w.srt # NoFile THEN replaceWatermark(w.srt.text) ELSE EmptyText
      rec == IF createRev = "qr" THEN recordWithContent(w, text) ELSE recordWithUrl(w)
      w1 == [w EXCEPT !.written = rec]
  IN
  /\ w.pc = "write"
  /\ outcome \in {"ok", "readError", "storeError"}
  /\ outcome = "readError" => createRev = "qr" /\ w.srt # NoFile
  /\ IF outcome = "ok"
     THEN /\ db' = [db EXCEPT ![w.uniqueId] = set(rec)]
          /\ created' = [created EXCEPT ![w.uniqueId] = rec]
          /\ IF createRev = "qr"
             THEN /\ cq' = [cq EXCEPT ![i] = [w1 EXCEPT !.pc = "qr"]]
                  /\ UNCHANGED <<createForm, createFiles, isLoading, showSuccessDialog,
                                 last>>
             ELSE CreateSuccess(i, w1)
     ELSE /\ CreateCatch(i, w, IF outcome = "readError" THEN "NotReadableError"
                                ELSE "PERMISSION_DENIED")
          /\ UNCHANGED <<db, created, createForm, createFiles, showSuccessDialog>>
  /\ UNCHANGED <<pureVars, homeVars, nextKey, reserved, editVars, nOps, newId, formName, qrCodes>>

\* generateQRCodes(uniqueId); setQrCodes; then the success block.
onSubmit_finish(i, ok) ==
  LET w == cq[i] IN
  /\ w.pc = "qr"
  /\ IF ok
     THEN /\ qrCodes' = IfMounted(w, baseUrl \o w.uniqueId, qrCodes)
          /\ CreateSuccess(i, w)
     ELSE /\ CreateCatch(i, w, "QRCode error")
          /\ UNCHANGED <<qrCodes, createForm, createFiles, showSuccessDialog>>
  /\ UNCHANGED <<pureVars, homeVars, storeVars, editVars, nOps, newId, formName>>

\* The copy button of the success dialog.
copyToClipboard ==
  /\ isUnlocked /\ tab = "create" /\ showSuccessDialog
  /\ last' = [op |-> "copyToClipboard", outcome |-> "copied", toast |-> "Copied!",
              text |-> baseUrl \o newId]
  /\ UNCHANGED <<pureVars, homeVars, storeVars, editVars, nOps, createForm, createFiles,
                 isLoading, showSuccessDialog, newId, formName, qrCodes, cq>>

\* Close button of the success dialog: setShowSuccessDialog(false)
closeSuccessDialog ==
  /\ isUnlocked /\ tab = "create" /\ showSuccessDialog
  /\ showSuccessDialog' = FALSE
  /\ UNCHANGED <<pureVars, homeVars, storeVars, editVars, nOps, last, createForm, createFiles,
                 isLoading, newId, formName, qrCodes, cq>>

----------------------------------------------------------------------------
(* EditForm: handleFetchData and onUpdate, in the two revisions of the form *)

UndefinedText == <<"undefined">>   \* the value of a text property that is absent

\* The fields of the edit form: the first revision has no mute.
FormKeysOf(rev) == IF rev = "partial" THEN {"name", "template", "enabled", "mute"}
                   ELSE {"name", "template", "enabled"}
FormKeys == FormKeysOf(editRev)

editDefaultsOf(rev) ==
  [k \in FormKeysOf(rev) |-> IF k \in {"name", "template"} THEN "" ELSE FALSE]
editDefaults == editDefaultsOf(editRev)

\* a.k === b.k, where an absent key is undefined
Same(a, b, k) ==
  /\ (k \in DOMAIN a) = (k \in DOMAIN b)
  /\ k \in DOMAIN a => a[k] = b[k]

Truthy(values, k) == k \in DOMAIN values /\ values[k] # ""

textOf(record) == IF "srtContent" \in DOMAIN record THEN record.srtContent ELSE UndefinedText

\* form.reset({ name: loadedData.name, ... }): an undefined property stays undefined.
formOf(record) == [k \in FormKeys \cap DOMAIN record |-> record[k]]

\* form.formState.dirtyFields: the fields whose value differs from the value of
\* the last reset.
dirtyFields(values, defaults) == {k \in FormKeys : ~Same(values, defaults, k)}

\* useEffect on [loadedData, form]: runs after loadedData has changed.
EffectOnLoadedData(new) ==
  /\ editForm' = IF new # Null THEN formOf(new) ELSE editDefaults
  /\ formDefaults' = IF new # Null THEN formOf(new) ELSE editDefaults
  /\ srtContent' = IF new # Null THEN textOf(new) ELSE EmptyText

\* The identifier field: setId(e.target.value)
setId(value) ==
  /\ isUnlocked /\ tab = "edit"
  /\ value # id
  /\ id' = value
  /\ UNCHANGED <<pureVars, homeVars, storeVars, createVars, last, loadedData, editForm,
                 formDefaults, editFiles, srtContent, isFetching, isUpdating, fq, uq, nOps>>

\* handleFetchData up to its await; the Load button is disabled while fetching,
\* the Enter key of the identifier field is not.
handleFetchData ==
  /\ isUnlocked /\ tab = "edit"
  /\ IF id = ""
     THEN /\ last' = [op |-> "handleFetchData", outcome |-> "noId", key |-> id,
                      toast |-> "Please enter an ID.", data |-> Null,
                      loadedData |-> loadedData]
          /\ UNCHANGED <<loadedData, editForm, formDefaults, editFiles, srtContent,
                         isFetching, fq, nOps>>
     ELSE /\ nOps < MaxOps /\ InFlight < MaxInFlight
          /\ nOps' = nOps + 1
          /\ isFetching' = TRUE
          /\ loadedData' = Null
          /\ editFiles' = IF editRev = "partial" THEN initialFiles ELSE editFiles
          /\ IF loadedData # Null THEN EffectOnLoadedData(Null)
             ELSE UNCHANGED <<editForm, formDefaults, srtContent>>
          /\ fq' = Append(fq, [key |-> id, mounted |-> TRUE])
          /\ UNCHANGED last
  /\ UNCHANGED <<pureVars, homeVars, storeVars, createVars, id, isUpdating, uq>>

\* The rest of handleFetchData: get(dbRef(db, `Saywith/${id}`)) has returned or
\* failed; snapshot.exists() ? setLoadedData(snapshot.val()) : "Not Found".
handleFetchData_done(i, ok) ==
  LET f == fq[i]
      data == db[f.key]
      loads == ok /\ data # Null /\ f.mounted
      after == IF loads THEN data ELSE loadedData
  IN
  /\ fq' = RemoveAt(fq, i)
  /\ isFetching' = IF f.mounted THEN FALSE ELSE isFetching
  /\ IF loads
     THEN loadedData' = data /\ EffectOnLoadedData(data)
     ELSE UNCHANGED <<loadedData, editForm, formDefaults, srtContent>>
  /\ last' = [op |-> "handleFetchData", key |-> f.key,
              outcome |-> IF ~ok THEN "error" ELSE IF data # Null THEN "loaded"
                          ELSE "notFound",
              toast |-> IF ~ok THEN "Error" ELSE IF data # Null THEN "Success"
                        ELSE "Not Found",
              data |-> IF ok THEN data ELSE Null,
              mounted |-> f.mounted, loadedData |-> after]
  /\ UNCHANGED <<pureVars, homeVars, storeVars, createVars, id, editFiles, isUpdating, uq,
                 nOps>>

UpdateEnded(w, outcome, toast, error, updates) ==
  [op |-> "onUpdate", outcome |-> outcome, toast |-> toast, error |-> error,
   rev |-> editRev, id |-> w.id, updates |-> updates, values |-> w.values,
   dirty |-> w.dirty, loaded |-> w.loadedData, media |-> w.media, audio |-> w.audio,
   srt |-> w.srt, srtContent |-> w.srtContent, provider |-> w.provider,
   calls |-> w.calls, response |-> w.response, written |-> updates]

\* A catch block with no finally: the busy flag stays as it is.
UpdateCatchStillBusy(i, w, error) ==
  /\ UNCHANGED isUpdating
  /\ uq' = RemoveAt(uq, i)
  /\ last' = UpdateEnded(w, "failed", "Error", error, Null)

\* catch (error) { console.error; toast(...) } finally { setIsUpdating(false) }
UpdateCatch(i, w, error) ==
  /\ isUpdating' = IfMounted(w, FALSE, isUpdating)
  /\ uq' = RemoveAt(uq, i)
  /\ last' = UpdateEnded(w, "failed", "Error", error, Null)

\* field.onChange of one field of the form.
setField(form, k, v) == [j \in DOMAIN form \cup {k} |-> IF j = k THEN v ELSE form[j]]

\* What the operator can do to the loaded form before submitting: nothing,
\* change one field, choose one file, or type into the text area.
EditChoices ==
  LET same == [values |-> editForm, files |-> editFiles, text |-> srtContent] IN
  { same,
    [same EXCEPT !.values = setField(editForm, "enabled",
                                     ~("enabled" \in DOMAIN editForm /\ editForm.enabled))],
    [same EXCEPT !.values = setField(editForm, "name",
                                     IF Truthy(editForm, "name") THEN "" ELSE "Promo")],
    [same EXCEPT !.files = [editFiles EXCEPT !.media = MediaFile]],
    [same EXCEPT !.files = [editFiles EXCEPT !.audio = AudioFile]],
    [same EXCEPT !.files = [editFiles EXCEPT !.srt = SrtFile]],
    [same EXCEPT !.text = WatermarkedText] }

\* zodResolver(formSchema): the first revision requires a name of at least two
\* characters and a template; the later one requires nothing.
Valid(values) ==
  editRev = "full" => Truthy(values, "name") /\ Truthy(values, "template")

\* The operator edits the loaded record and submits: form.handleSubmit(onUpdate)
\* takes the values; onUpdate is the closure of the last render.
handleSubmitEdit(c) ==
  /\ isUnlocked /\ tab = "edit"
  /\ loadedData # Null
  /\ ~isUpdating
  /\ nOps < MaxOps /\ InFlight < MaxInFlight
  /\ Valid(c.values)
  /\ nOps' = nOps + 1
  /\ editForm' = c.values
  /\ editFiles' = c.files
  /\ srtContent' = c.text
  /\ uq' = Append(uq, [pc |-> "begin", values |-> c.values, id |-> id,
                       loadedData |-> loadedData, media |-> c.files.media,
                       audio |-> c.files.audio, srt |-> c.files.srt, srtContent |-> c.text,
                       provider |-> IF editRev = "partial" THEN storageProvider
                                    ELSE "firebase",
                       dirty |-> dirtyFields(c.values, formDefaults), mounted |-> TRUE,
                       mediaUrl |-> EmptyText, audioUrl |-> EmptyText, calls |-> {},
                       response |-> Null])
  /\ UNCHANGED <<pureVars, homeVars, storeVars, createVars, last, id, loadedData,
                 formDefaults, isFetching, isUpdating, fq>>

EditNeedsUpload(w) == w.media # NoFile \/ w.audio # NoFile

\* if (!id || !loadedData) return; setIsUpdating(true);
onUpdate_begin(i) ==
  LET w == uq[i] IN
  /\ w.pc = "begin"
  /\ IF w.id = "" \/ w.loadedData = Null
     THEN /\ uq' = RemoveAt(uq, i)
          /\ last' = UpdateEnded(w, "ignored", "", "", Null)
          /\ UNCHANGED isUpdating
     ELSE /\ uq' = [uq EXCEPT ![i] = [w EXCEPT !.pc = IF EditNeedsUpload(w) THEN "upload"
                                                        ELSE "write"]]
          /\ isUpdating' = IfMounted(w, TRUE, isUpdating)
          /\ UNCHANGED last
  /\ UNCHANGED <<pureVars, homeVars, storeVars, createVars, id, loadedData, editForm,
                 formDefaults, editFiles, srtContent, isFetching, fq, nOps>>

EditFiles(w) ==
  (IF w.media # NoFile THEN << <<"media", w.media>> >> ELSE <<>>)
  \o (IF w.audio # NoFile THEN << <<"audio", w.audio>> >> ELSE <<>>)

\* The first revision: storageRef(storage, `media/${Date.now()}_${mediaFile.name}`)
timestampPath(role, file) == <<role, "Date.now()", file.name>>

editPath(w, role, file) ==
  IF editRev = "partial" THEN storagePath(w.id, role, file) ELSE timestampPath(role, file)

\* uploadBytes and getDownloadURL for each newly chosen file.
onUpdate_uploadFirebase(i, n, ok) ==
  LET w == uq[i]
      files == EditFiles(w)
      issued == {uploadBytesCall(editPath(w, files[j][1], files[j][2]), files[j][2])
                   : j \in 1..n}
      url(role, file) == IF file # NoFile THEN getDownloadURL(editPath(w, role, file))
                         ELSE EmptyText
      w1 == [w EXCEPT !.calls = issued]
  IN
  /\ w.pc = "upload" /\ w.provider = "firebase"
  /\ n \in 1..Len(files)
  /\ ok => n = Len(files)
  /\ IF ok
     THEN /\ uq' = [uq EXCEPT ![i] = [w1 EXCEPT !.pc = "write",
                                               !.mediaUrl = url("media", w.media),
                                               !.audioUrl = url("audio", w.audio)]]
          /\ UNCHANGED <<isUpdating, last>>
     ELSE UpdateCatch(i, w1, "storage/unknown")
  /\ UNCHANGED <<pureVars, homeVars, storeVars, createVars, id, loadedData, editForm,
                 formDefaults, editFiles, srtContent, isFetching, fq, nOps>>

\* custom backend of the later revision: one multipart POST with folder = id.
onUpdate_uploadCustom(i, r) ==
  LET w == uq[i]
      w1 == [w EXCEPT !.calls = {multipartRequest(w.id, w.media, w.audio, FALSE)},
                      !.response = r]
  IN
  /\ w.pc = "upload" /\ w.provider = "custom"
  /\ r \in Responses(w.media # NoFile, w.audio # NoFile, w.id)
  /\ IF r.kind = "ok"
     THEN /\ uq' = [uq EXCEPT ![i] = [w1 EXCEPT !.pc = "write",
                                               !.mediaUrl = r.body.file1URL,
                                               !.audioUrl = r.body.file2URL]]
          /\ UNCHANGED <<isUpdating, last>>
     ELSE UpdateCatch(i, w1, responseError(r))
  /\ UNCHANGED <<pureVars, homeVars, storeVars, createVars, id, loadedData, editForm,
                 formDefaults, editFiles, srtContent, isFetching, fq, nOps>>

\* The update map of the later revision: the dirty fields, the URLs of the files
\* uploaded, the subtitle text if it differs from the loaded one.
partialUpdates(w, final) ==
  LET keys == {k \in {"name", "template"} : k \in w.dirty /\ Truthy(w.values, k)}
              \cup {k \in {"enabled", "mute"} : k \in w.dirty}
              \cup (IF w.mediaUrl # EmptyText THEN {"mediaUrl"} ELSE {})
              \cup (IF w.audioUrl # EmptyText THEN {"audioUrl"} ELSE {})
              \cup (IF final # textOf(w.loadedData) THEN {"srtContent"} ELSE {})
  IN [k \in keys |-> CASE k = "mediaUrl" -> w.mediaUrl
                       [] k = "audioUrl" -> w.audioUrl
                       [] k = "srtContent" -> final
                       [] OTHER -> w.values[k]]

\* The update map of the first revision: { ...values, mediaUrl, audioUrl, srtContent }
fullUpdates(w, final) ==
  [k \in {"name", "template", "enabled", "mediaUrl", "audioUrl", "srtContent"} |->
     CASE k = "mediaUrl" -> IF w.media # NoFile THEN w.mediaUrl ELSE w.loadedData.mediaUrl
       [] k = "audioUrl" -> IF w.audio # NoFile THEN w.audioUrl ELSE w.loadedData.audioUrl
       [] k = "srtContent" -> final
       [] k = "enabled" -> "enabled" \in DOMAIN w.values /\ w.values.enabled
       [] OTHER -> w.values[k]]

\* update() rejects a map holding an undefined value.
HasUndefined(w, final) ==
  \/ final = UndefinedText
  \/ w.media = NoFile /\ "mediaUrl" \notin DOMAIN w.loadedData
  \/ w.audio = NoFile /\ "audioUrl" \notin DOMAIN w.loadedData

\* An end of onUpdate that clears the files and resets the form, and leaves the
\* loaded record as it was fetched.
UpdateCleanupWithoutMerge(w, merged, updates) ==
  IF ~w.mounted
  THEN UNCHANGED <<loadedData, editForm, formDefaults, editFiles, srtContent>>
  ELSE /\ editFiles' = initialFiles
       /\ formDefaults' = IF editRev = "partial" THEN editForm ELSE formDefaults
       /\ UNCHANGED <<loadedData, editForm, srtContent>>

\* The end of a successful or change-free onUpdate: the files are cleared, the
\* form is reset, and the effect on loadedData runs if it was replaced.
UpdateCleanup(w, merged, updates) ==
  IF ~w.mounted
  THEN UNCHANGED <<loadedData, editForm, formDefaults, editFiles, srtContent>>
  ELSE /\ editFiles' = initialFiles
       /\ IF merged /\ loadedData # Null
          THEN /\ loadedData' = Merge(loadedData, updates)
               /\ EffectOnLoadedData(Merge(loadedData, updates))
          ELSE /\ formDefaults' = IF editRev = "partial" THEN editForm ELSE formDefaults
               /\ UNCHANGED <<loadedData, editForm, srtContent>>

\* The later revision from the subtitle text on: readFileAsText, the watermark
\* replacement, the comparison, update() or the "No Changes" notification.
onUpdate_writePartial(i, outcome) ==
  LET w == uq[i]
      text == IF w.srt # NoFile THEN w.srt.text ELSE w.srtContent
      final == replaceWatermark(text)
      updates == partialUpdates(w, final)
  IN
  /\ w.pc = "write" /\ editRev = "partial"
  /\ outcome \in {"ok", "readError", "storeError"}
  /\ outcome = "readError" => w.srt # NoFile
  /\ outcome = "storeError" => text # UndefinedText /\ updates # Null
  /\ IF outcome = "ok" /\ text # UndefinedText
     THEN /\ IF updates # Null
             THEN /\ db' = [db EXCEPT ![w.id] = Merge(@, updates)]
                  /\ created' = [created EXCEPT ![w.id] = Null]
                  /\ last' = UpdateEnded(w, "updated", "Update Successful!", "", updates)
             ELSE /\ last' = UpdateEnded(w, "noChanges", "No Changes", "", updates)
                  /\ UNCHANGED <<db, created>>
          /\ UpdateCleanup(w, updates # Null, updates)
          /\ isUpdating' = IfMounted(w, FALSE, isUpdating)
          /\ uq' = RemoveAt(uq, i)
     ELSE /\ UpdateCatch(i, w, CASE outcome = "readError" -> "NotReadableError"
                                  [] outcome = "storeError" -> "PERMISSION_DENIED"
                                  [] OTHER -> "TypeError")
          /\ UNCHANGED <<db, created, loadedData, editForm, formDefaults, editFiles,
                         srtContent>>
  /\ UNCHANGED <<pureVars, homeVars, nextKey, reserved, createVars, id, isFetching, fq,
                 nOps>>

\* The first revision from the subtitle text on: readFileAsText and update()
\* with every field.
onUpdate_writeFull(i, outcome) ==
  LET w == uq[i]
      final == IF w.srt # NoFile THEN w.srt.text ELSE w.srtContent
      updates == fullUpdates(w, final)
  IN
  /\ w.pc = "write" /\ editRev = "full"
  /\ outcome \in {"ok", "readError", "storeError"}
  /\ outcome = "readError" => w.srt # NoFile
  /\ outcome = "storeError" => ~HasUndefined(w, final)
  /\ IF outcome = "ok" /\ ~HasUndefined(w, final)
     THEN /\ db' = [db EXCEPT ![w.id] = Merge(@, updates)]
          /\ created' = [created EXCEPT ![w.id] = Null]
          /\ last' = UpdateEnded(w, "updated", "Success", "", updates)
          /\ UpdateCleanup(w, TRUE, updates)
          /\ isUpdating' = IfMounted(w, FALSE, isUpdating)
          /\ uq' = RemoveAt(uq, i)
     ELSE /\ UpdateCatch(i, w, CASE outcome = "readError" -> "NotReadableError"
                                  [] outcome = "storeError" -> "PERMISSION_DENIED"
                                  [] OTHER -> "update failed: undefined")
          /\ UNCHANGED <<db, created, loadedData, editForm, formDefaults, editFiles,
                         srtContent>>
  /\ UNCHANGED <<pureVars, homeVars, nextKey, reserved, createVars, id, isFetching, fq,
                 nOps>>

----------------------------------------------------------------------------
(* Home and LockScreen *)

Unmounted(q) == [j \in 1..Len(q) |-> [q[j] EXCEPT !.mounted = FALSE]]

CreateFormInitial ==
  /\ createForm' = defaultValues
  /\ createFiles' = initialFiles
  /\ isLoading' = FALSE
  /\ showSuccessDialog' = FALSE
  /\ newId' = ""
  /\ formName' = ""
  /\ qrCodes' = ""

EditFormInitial ==
  /\ id' = ""
  /\ loadedData' = Null
  /\ editForm' = editDefaults
  /\ formDefaults' = editDefaults
  /\ editFiles' = initialFiles
  /\ srtContent' = EmptyText
  /\ isFetching' = FALSE
  /\ isUpdating' = FALSE

\* handlePinChange: digits only, at most four.
handlePinChange(value) ==
  /\ ~isUnlocked
  /\ value # pin
  /\ pin' = value
  /\ UNCHANGED <<pureVars, isUnlocked, storageProvider, savedProvider, tab, createRev,
                 editRev, storeVars, createVars, editVars, nOps, last>>

\* A lock screen that calls onUnlock() whatever was entered.
LockScreen_handleSubmitAnyPin ==
  /\ ~isUnlocked
  /\ isUnlocked' = TRUE /\ pin' = ""
  /\ UNCHANGED <<pureVars, storageProvider, savedProvider, tab, createRev, editRev,
                 storeVars, createVars, editVars, nOps, last>>

\* LockScreen handleSubmit: pin === correctPin ? onUnlock() : setPin('')
LockScreen_handleSubmit ==
  /\ ~isUnlocked
  /\ IF pin = correctPin
     THEN isUnlocked' = TRUE /\ pin' = ""
     ELSE pin' = "" /\ UNCHANGED isUnlocked
  /\ UNCHANGED <<pureVars, storageProvider, savedProvider, tab, createRev, editRev,
                 storeVars, createVars, editVars, nOps, last>>

\* The values onValueChange can hand to handleProviderChange: the two items of
\* the menu, and a string that is neither.
ProviderChoices == {"firebase", "custom", "s3"}

\* A handler that stores whatever it is given.
handleProviderChangeUnchecked(provider) ==
  /\ isUnlocked
  /\ provider # storageProvider
  /\ storageProvider' = provider /\ savedProvider' = provider
  /\ UNCHANGED <<pureVars, isUnlocked, pin, tab, createRev, editRev, storeVars, createVars,
                 editVars, nOps, last>>

\* handleProviderChange: setStorageProvider and localStorage.setItem
handleProviderChange(provider) ==
  /\ isUnlocked
  /\ provider # storageProvider
  /\ IF provider = "firebase" \/ provider = "custom"
     THEN storageProvider' = provider /\ savedProvider' = provider
     ELSE UNCHANGED <<storageProvider, savedProvider>>
  /\ UNCHANGED <<pureVars, isUnlocked, pin, tab, createRev, editRev, storeVars, createVars,
                 editVars, nOps, last>>

\* Tabs: the content of the tab that is left is unmounted and loses its state;
\* what it has in flight goes on without it.
selectTab(value) ==
  /\ isUnlocked
  /\ value # tab
  /\ InFlight <= MaxDetached
  /\ tab' = value
  /\ CreateFormInitial
  /\ EditFormInitial
  /\ cq' = Unmounted(cq)
  /\ fq' = Unmounted(fq)
  /\ uq' = Unmounted(uq)
  /\ UNCHANGED <<pureVars, isUnlocked, pin, storageProvider, savedProvider, createRev,
                 editRev, storeVars, nOps, last>>

\* A page load: every component starts from its initial state and the provider
\* is restored from localStorage; the store keeps what it holds.
PageLoad ==
  /\ isUnlocked' = FALSE
  /\ pin' = ""
  /\ storageProvider' = IF savedProvider # "" THEN savedProvider ELSE "firebase"
  /\ tab' = "create"
  /\ CreateFormInitial
  /\ EditFormInitial
  /\ cq' = <<>> /\ fq' = <<>> /\ uq' = <<>>
  /\ last' = Null
  /\ UNCHANGED <<pureVars, savedProvider, createRev, editRev, storeVars, nOps>>

----------------------------------------------------------------------------
(* The program *)

\* What the operator can enter in the create form: flags only and no file, or
\* a name, a template and the three files.
CreateChoices ==
  { [values |-> FlagValues, files |-> initialFiles],
    [values |-> PromoValues,
     files |-> [media |-> MediaFile, audio |-> AudioFile, srt |-> SrtFile]] }

\* What the operator can type in the identifier field: a string of their own, or
\* the key of a record that exists. A key is made by the store and is shown to
\* the operator only by the success dialog, after the record has been written.
KnownIds ==
  TypedIds \cup {k \in {reserved[n] : n \in 1..Len(reserved)} : db[k] # Null}

\* The page as it is served: locked, on the create tab, nothing stored.
ProgramInit ==
  /\ createRev \in {"qr", "srtUrl"}
  /\ editRev \in {"partial", "full"}
  /\ isUnlocked = FALSE /\ pin = ""
  /\ storageProvider = "firebase" /\ savedProvider = ""
  /\ tab = "create"
  /\ db = [k \in Ids |-> Null] /\ created = [k \in Ids |-> Null]
  /\ nextKey = 0 /\ reserved = <<>>
  /\ createForm = defaultValues /\ createFiles = initialFiles
  /\ isLoading = FALSE /\ showSuccessDialog = FALSE
  /\ newId = "" /\ formName = "" /\ qrCodes = ""
  /\ cq = <<>>
  /\ id = "" /\ loadedData = Null
  /\ editForm = editDefaults /\ formDefaults = editDefaults
  /\ editFiles = initialFiles /\ srtContent = EmptyText
  /\ isFetching = FALSE /\ isUpdating = FALSE
  /\ fq = <<>> /\ uq = <<>> /\ nOps = 0
  /\ last = Null

Init ==
  /\ fn = "none" /\ arg = <<>> /\ res = <<>>
  /\ ProgramInit

Next ==
  \/ \E v \in Pins : handlePinChange(v)
  \/ LockScreen_handleSubmit
  \/ \E p \in ProviderChoices : handleProviderChange(p)
  \/ \E t \in {"create", "edit"} : selectTab(t)
  \/ PageLoad
  \/ \E c \in CreateChoices : handleSubmit(c.values, c.files)
  \/ \E i \in 1..Len(cq) : onSubmit_begin(i)
  \/ \E i \in 1..Len(cq), n \in 1..3, ok \in BOOLEAN : onSubmit_uploadFirebase(i, n, ok)
  \/ \E i \in 1..Len(cq) : \E r \in Responses(TRUE, TRUE, cq[i].uniqueId) :
       onSubmit_uploadCustom(i, r)
  \/ \E i \in 1..Len(cq), o \in {"ok", "readError", "storeError"} : onSubmit_write(i, o)
  \/ \E i \in 1..Len(cq), ok \in BOOLEAN : onSubmit_finish(i, ok)
  \/ copyToClipboard
  \/ closeSuccessDialog
  \/ \E v \in KnownIds : setId(v)
  \/ handleFetchData
  \/ \E i \in 1..Len(fq), ok \in BOOLEAN : handleFetchData_done(i, ok)
  \/ \E c \in EditChoices : handleSubmitEdit(c)
  \/ \E i \in 1..Len(uq) : onUpdate_begin(i)
  \/ \E i \in 1..Len(uq), n \in 1..2, ok \in BOOLEAN : onUpdate_uploadFirebase(i, n, ok)
  \/ \E i \in 1..Len(uq) : \E r \in Responses(TRUE, TRUE, uq[i].id) :
       onUpdate_uploadCustom(i, r)
  \/ \E i \in 1..Len(uq), o \in {"ok", "readError", "storeError"} : onUpdate_writePartial(i, o)
  \/ \E i \in 1..Len(uq), o \in {"ok", "readError", "storeError"} : onUpdate_writeFull(i, o)

Spec == Init /\ [][Next]_vars

\* The continuations of the handler runs in flight: each awaited call returns
\* or fails, and the event loop then runs the rest of the handler.
Continue ==
  \/ \E i \in 1..Len(cq) : onSubmit_begin(i)
  \/ \E i \in 1..Len(cq), n \in 1..3, ok \in BOOLEAN : onSubmit_uploadFirebase(i, n, ok)
  \/ \E i \in 1..Len(cq) : \E r \in Responses(TRUE, TRUE, cq[i].uniqueId) :
       onSubmit_uploadCustom(i, r)
  \/ \E i \in 1..Len(cq), o \in {"ok", "readError", "storeError"} : onSubmit_write(i, o)
  \/ \E i \in 1..Len(cq), ok \in BOOLEAN : onSubmit_finish(i, ok)
  \/ \E i \in 1..Len(fq), ok \in BOOLEAN : handleFetchData_done(i, ok)
  \/ \E i \in 1..Len(uq) : onUpdate_begin(i)
  \/ \E i \in 1..Len(uq), n \in 1..2, ok \in BOOLEAN : onUpdate_uploadFirebase(i, n, ok)
  \/ \E i \in 1..Len(uq) : \E r \in Responses(TRUE, TRUE, uq[i].id) :
       onUpdate_uploadCustom(i, r)
  \/ \E i \in 1..Len(uq), o \in {"ok", "readError", "storeError"} : onUpdate_writePartial(i, o)
  \/ \E i \in 1..Len(uq), o \in {"ok", "readError", "storeError"} : onUpdate_writeFull(i, o)

\* The record an earlier session created from a name and a template, no file.
StoredRecord ==
  LET w == [values |-> PromoValues, mediaUrl |-> EmptyText, audioUrl |-> EmptyText,
            srtUrl |-> EmptyText]
  IN IF createRev = "qr" THEN recordWithContent(w, EmptyText) ELSE recordWithUrl(w)

\* The page as it is served to a later session: the store holds the record of
\* the one create submit made before; ops of the operations are spent.
StoredInit(ops) ==
  /\ fn = "none" /\ arg = <<>> /\ res = <<>>
  /\ createRev \in {"qr", "srtUrl"}
  /\ editRev \in {"partial", "full"}
  /\ isUnlocked = FALSE /\ pin = ""
  /\ storageProvider = "firebase" /\ savedProvider = ""
  /\ tab = "create"
  /\ db = [k \in Ids |-> IF k = push(1) THEN set(StoredRecord) ELSE Null]
  /\ created = [k \in Ids |-> IF k = push(1) THEN StoredRecord ELSE Null]
  /\ nextKey = 1 /\ reserved = <<push(1)>>
  /\ createForm = defaultValues /\ createFiles = initialFiles
  /\ isLoading = FALSE /\ showSuccessDialog = FALSE
  /\ newId = "" /\ formName = "" /\ qrCodes = ""
  /\ cq = <<>>
  /\ id = "" /\ loadedData = Null
  /\ editForm = editDefaults /\ formDefaults = editDefaults
  /\ editFiles = initialFiles /\ srtContent = EmptyText
  /\ isFetching = FALSE /\ isUpdating = FALSE
  /\ fq = <<>> /\ uq = <<>> /\ nOps = ops
  /\ last = Null

\* The later session after the one submit that created the record.
InitLive == StoredInit(1)

\* The program with every awaited call of a handler run eventually settling.
SpecLive == InitLive /\ [][Next]_vars /\ WF_vars(Continue)

\* A session in which the operator only edits: the record exists already, and
\* the create form is left alone.
InitEdit == StoredInit(0)

NextEdit ==
  \/ \E v \in Pins : handlePinChange(v)
  \/ LockScreen_handleSubmit
  \/ \E p \in ProviderChoices : handleProviderChange(p)
  \/ \E t \in {"create", "edit"} : selectTab(t)
  \/ PageLoad
  \/ \E v \in KnownIds : setId(v)
  \/ handleFetchData
  \/ \E i \in 1..Len(fq), ok \in BOOLEAN : handleFetchData_done(i, ok)
  \/ \E c \in EditChoices : handleSubmitEdit(c)
  \/ \E i \in 1..Len(uq) : onUpdate_begin(i)
  \/ \E i \in 1..Len(uq), n \in 1..2, ok \in BOOLEAN : onUpdate_uploadFirebase(i, n, ok)
  \/ \E i \in 1..Len(uq) : \E r \in Responses(TRUE, TRUE, uq[i].id) :
       onUpdate_uploadCustom(i, r)
  \/ \E i \in 1..Len(uq), o \in {"ok", "readError", "storeError"} : onUpdate_writePartial(i, o)
  \/ \E i \in 1..Len(uq), o \in {"ok", "readError", "storeError"} : onUpdate_writeFull(i, o)

SpecEdit == InitEdit /\ [][NextEdit]_vars

----------------------------------------------------------------------------
(* The text post-processor on its own: replaceWatermark applied once, then
   again to its own result *)

WatermarkHead == SubSeq(Watermark, 1, 40)
WatermarkTail == SubSeq(Watermark, 41, Len(Watermark))
Fragments == {Watermark, Replacement, WatermarkHead, WatermarkTail, <<"x">>, <<"\n">>}

RECURSIVE TextsOf(_)
\* The texts made of at most n fragments.
TextsOf(n) ==
  IF n = 0 THEN {<<>>}
  ELSE TextsOf(n - 1) \cup {f \o t : f \in Fragments, t \in TextsOf(n - 1)}

ProgramIdle == UNCHANGED <<homeVars, storeVars, createVars, editVars, last, nOps>>

InitText ==
  /\ fn = "none" /\ arg \in TextsOf(MaxFrags) /\ res = <<>>
  /\ ProgramInit /\ createRev = "qr" /\ editRev = "partial"

replaceWatermark_once ==
  /\ fn = "none"
  /\ fn' = "replaceWatermark"
  /\ res' = replaceWatermark(arg)
  /\ UNCHANGED arg
  /\ ProgramIdle

replaceWatermark_again ==
  /\ fn = "replaceWatermark"
  /\ fn' = "replaceWatermark twice"
  /\ res' = replaceWatermark(res)
  /\ UNCHANGED arg
  /\ ProgramIdle

NextText == replaceWatermark_once \/ replaceWatermark_again

SpecText == InitText /\ [][NextText]_vars

----------------------------------------------------------------------------
(* getFileExtension on its own *)

Alphabet == {".", "a", "b"}

RECURSIVE NamesOf(_)
\* The filenames of at most n characters.
NamesOf(n) ==
  IF n = 0 THEN {<<>>}
  ELSE NamesOf(n - 1) \cup {<<c>> \o t : c \in Alphabet, t \in NamesOf(n - 1)}

NoExtName == <<"n", "o", "e", "x", "t">>
Filenames == NamesOf(MaxNameLen) \cup {MediaFile.name, AudioFile.name, NoExtName}

InitExt ==
  /\ fn = "none" /\ arg \in Filenames /\ res = <<>>
  /\ ProgramInit /\ createRev = "qr" /\ editRev = "partial"

getFileExtension_call ==
  /\ fn = "none"
  /\ fn' = "getFileExtension"
  /\ res' = getFileExtension(arg)
  /\ UNCHANGED arg
  /\ ProgramIdle

NextExt == getFileExtension_call

SpecExt == InitExt /\ [][NextExt]_vars

----------------------------------------------------------------------------
(* Properties *)

Ended(op) == last # Null /\ last.op = op

\* C1: no two create submits reserve the same identifier: the key a create
\* workflow obtains from push differs from the key of every earlier or
\* concurrent create workflow.
UniqueIdentifiers ==
  /\ \A m, n \in 1..Len(reserved) : m # n => reserved[m] # reserved[n]
  /\ \A i, j \in 1..Len(cq) :
       i # j /\ cq[i].uniqueId # "" => cq[i].uniqueId # cq[j].uniqueId

\* Two create workflows in flight at once, each past its push.
TwoCreatesInFlight ==
  /\ Len(cq) = 2
  /\ cq[1].uniqueId # "" /\ cq[2].uniqueId # ""

\* C2: a fetch of an identifier whose record a create workflow wrote and no
\* update has touched reads exactly the field map that was written, empty
\* strings included, and the edit form that asked for it (when it is still on
\* screen) holds that map as its loaded record.
RoundTrip ==
  (Ended("handleFetchData") /\ last.outcome = "loaded" /\ created[last.key] # Null)
    => /\ last.data = created[last.key]
       /\ last.mounted => last.loadedData = created[last.key]

\* A record written without files has been fetched: its URLs are empty strings.
FetchedRecordWithEmptyStrings ==
  /\ Ended("handleFetchData") /\ last.outcome = "loaded"
  /\ created[last.key] # Null
  /\ created[last.key].mediaUrl = EmptyText /\ created[last.key].audioUrl = EmptyText
  /\ created[last.key].name = ""
  /\ loadedData = created[last.key]

\* C3: no stored record has an srtContent that contains the watermark phrase.
NoWatermarkStored ==
  \A k \in Ids :
    (db[k] # Null /\ "srtContent" \in DOMAIN db[k]) => ~Contains(db[k].srtContent, Watermark)

\* C4: the watermark replacement applied to its own result gives the result of
\* applying it once.
WatermarkIdempotent ==
  fn = "replaceWatermark twice" => res = replaceWatermark(arg)

\* The replacement has been applied twice to a text holding the phrase twice.
ReplacedTwice ==
  /\ fn = "replaceWatermark twice"
  /\ arg = Watermark \o Watermark
  /\ res = Replacement \o Replacement

\* The operator changed the enabled flag and nothing else.
OnlyEnabledChanged ==
  /\ Ended("onUpdate")
  /\ last.dirty = {"enabled"}
  /\ last.media = NoFile /\ last.audio = NoFile /\ last.srt = NoFile
  /\ last.srtContent = textOf(last.loaded)

\* C5: when the operator changed only the enabled flag, the map passed to the
\* store update holds the key enabled with the new value and no other key.
MinimalUpdate ==
  (OnlyEnabledChanged /\ last.outcome = "updated")
    => last.updates = [enabled |-> last.values.enabled]

\* The operator submitted the loaded record as it was loaded.
NothingChanged ==
  /\ Ended("onUpdate")
  /\ last.dirty = {}
  /\ last.media = NoFile /\ last.audio = NoFile /\ last.srt = NoFile
  /\ last.srtContent = textOf(last.loaded)

\* C6: a submit of the later edit form with no dirty field, no new file and
\* unchanged subtitle text issues no store write and shows "No Changes".
NoOpUpdate ==
  (NothingChanged /\ last.rev = "partial")
    => /\ last.outcome = "noChanges"
       /\ last.toast = "No Changes"
       /\ last.updates = Null

\* The 1-based position of the last "." of a filename, 0 when it has none.
LastDot(s) ==
  IF \E i \in 1..Len(s) : s[i] = "."
  THEN CHOOSE i \in 1..Len(s) : s[i] = "." /\ \A j \in (i + 1)..Len(s) : s[j] # "."
  ELSE 0

\* C7 as stated: the extension is what follows the last ".", and the empty
\* string when the filename has no ".".
ExtensionAfterLastDot ==
  fn = "getFileExtension"
    => res = IF LastDot(arg) = 0 THEN <<>> ELSE SubSeq(arg, LastDot(arg) + 1, Len(arg))

\* C7 amended: the extension is what follows the last "." when that "." is not
\* the first character of the filename, and the empty string when the filename
\* has no "." or only a leading one.
ExtensionAfterInnerDot ==
  fn = "getFileExtension"
    => res = IF LastDot(arg) <= 1 THEN <<>> ELSE SubSeq(arg, LastDot(arg) + 1, Len(arg))

\* The extension of a filename whose only "." is its first character has been
\* derived, and it is empty.
ExtensionOfDotfile ==
  /\ fn = "getFileExtension"
  /\ Len(arg) > 1 /\ LastDot(arg) = 1
  /\ res = <<>>

\* A create submit with no file chosen has ended.
CreatedWithoutFiles ==
  /\ Ended("onSubmit")
  /\ last.media = NoFile /\ last.audio = NoFile /\ last.srt = NoFile

\* The form values of the submit that ended, together with empty URLs.
ValuesWithEmptyUrls ==
  [name |-> last.values.name, template |-> last.values.template,
   enabled |-> last.values.enabled, mute |-> last.values.mute,
   mediaUrl |-> EmptyText, audioUrl |-> EmptyText]

NotFoundLoadsNothing ==
  (Ended("handleFetchData") /\ last.outcome = "notFound")
    => /\ last.toast = "Not Found"
       /\ last.loadedData = Null

\* The upload endpoint answered a submit with a non-ok status and {error: m}.
UploadRejected ==
  /\ Ended("onSubmit") \/ Ended("onUpdate")
  /\ last.response # Null
  /\ last.response.kind = "notOk"
  /\ "error" \in DOMAIN last.response.body

\* C10 as stated: the upload fails with an error whose message is exactly m.
UploadErrorIsServerMessage ==
  UploadRejected => last.outcome = "failed" /\ last.error = last.response.body.error

\* C10 amended: the upload fails with an error whose message is exactly m when
\* m is not empty, and "Upload failed" when m is the empty string.
UploadErrorIsServerMessageOrFallback ==
  UploadRejected
    => /\ last.outcome = "failed"
       /\ last.error = IF last.response.body.error = "" THEN "Upload failed"
                       ELSE last.response.body.error

\* The endpoint answered 500 {"error": "disk full"} and the submit failed with it.
UploadRejectedDiskFull ==
  /\ UploadRejected
  /\ last.response.body.error = "disk full"
  /\ last.error = "disk full"

\* A step in which a blob upload of a create submit fails: the submit was at its
\* upload and is gone from the submits in flight.
CreateUploadFails ==
  /\ isUnlocked'
  /\ \E i \in 1..Len(cq) : cq[i].pc = "upload" /\ cq' = RemoveAt(cq, i)

\* A step in which a blob upload of an edit submit fails.
UpdateUploadFails ==
  /\ isUnlocked'
  /\ \E i \in 1..Len(uq) : uq[i].pc = "upload" /\ uq' = RemoveAt(uq, i)

\* What an upload failure must leave alone: the store, the values and files of
\* both forms, the loaded record, the other handler runs.
AbortLeaves ==
  /\ UNCHANGED <<db, created, createForm, createFiles, loadedData, editForm, formDefaults,
                 editFiles, srtContent, fq>>
  /\ last'.written = Null
  /\ last'.outcome = "failed"

\* C11: once a blob upload of a create or edit submit fails, the submit ends:
\* it issues no store write and no further call, a generic error notification
\* is shown, and the form values, the chosen files and the loaded record stay
\* as they were.
UploadFailureAborts ==
  [][/\ CreateUploadFails
          => /\ AbortLeaves /\ UNCHANGED uq
             /\ last'.op = "onSubmit"
             /\ last'.toast = "Uh oh! Something went wrong."
     /\ UpdateUploadFails
          => /\ AbortLeaves /\ UNCHANGED cq
             /\ last'.op = "onUpdate"
             /\ last'.toast = "Error"]_vars

\* The upload of the audio file of a create submit has failed after the media
\* file was uploaded; the form still holds the values and the files.
SecondUploadFailed ==
  /\ Ended("onSubmit") /\ last.outcome = "failed" /\ last.error = "storage/unknown"
  /\ Cardinality(last.calls) = 2
  /\ createForm = PromoValues /\ createFiles.media = MediaFile
  /\ db[last.uniqueId] = Null

\* A step in which the create submit at position i of the submits in flight
\* ends in success, its form still on screen.
CreateSucceeds(i) ==
  /\ isUnlocked'
  /\ cq[i].pc \in {"write", "qr"} /\ cq[i].mounted
  /\ cq' = RemoveAt(cq, i)
  /\ last'.op = "onSubmit" /\ last'.outcome = "success"

\* C12: when a create submit ends in success the form is back at name = "",
\* template = "", enabled = false, mute = false and no file is selected.
ResetOnSuccess ==
  [][\A i \in 1..Len(cq) :
       CreateSucceeds(i) => /\ createForm' = defaultValues
                            /\ createFiles' = initialFiles]_vars

\* A create submit with a name, a template and three files has succeeded and
\* the form is empty again.
FilledFormReset ==
  /\ Ended("onSubmit") /\ last.outcome = "success"
  /\ last.values = PromoValues /\ last.media = MediaFile /\ last.srt = SrtFile
  /\ createForm = defaultValues /\ createFiles = initialFiles
  /\ showSuccessDialog

\* Every upload of a file provided to the create submit w has completed.
UploadsDone(w) ==
  IF w.provider = "firebase"
  THEN Cardinality(w.calls) = Len(FirebaseFiles(w))
  ELSE (w.media # NoFile \/ w.audio # NoFile)
         => /\ w.calls = {multipartRequest(w.uniqueId, w.media, w.audio, createRev = "srtUrl")}
            /\ w.response # Null /\ w.response.kind = "ok"

\* The record the create submit w wrote carries the URL each upload returned.
CarriesUrls(w) ==
  IF w.provider = "firebase"
  THEN /\ w.written.mediaUrl =
            IF w.media # NoFile
            THEN <<"https://storage", "messages", w.uniqueId, "media",
                   getFileExtension(w.media.name)>>
            ELSE EmptyText
       /\ w.written.audioUrl =
            IF w.audio # NoFile
            THEN <<"https://storage", "messages", w.uniqueId, "audio",
                   getFileExtension(w.audio.name)>>
            ELSE EmptyText
  ELSE /\ (w.response # Null /\ w.response.body.file1URL # EmptyText)
            => w.written.mediaUrl = w.response.body.file1URL
       /\ (w.response # Null /\ w.response.body.file2URL # EmptyText)
            => w.written.audioUrl = w.response.body.file2URL

\* The order of the steps the create submit w has taken so far.
InOrder(w) ==
  /\ w.calls # {} => w.uniqueId # ""
  /\ \A c \in w.calls : IF c.mode = "firebase" THEN c.path[2] = w.uniqueId
                         ELSE c.folder = w.uniqueId
  /\ w.written # Null => w.uniqueId # "" /\ UploadsDone(w) /\ CarriesUrls(w)

\* C13: within one create submit the identifier is reserved before any upload
\* starts, every upload of a provided file has completed before the store
\* write, the record written carries the URLs the uploads returned, and success
\* is reported only after the write.
OrderedCreate ==
  /\ \A i \in 1..Len(cq) :
       /\ InOrder(cq[i])
       /\ cq[i].pc = "begin" => cq[i].uniqueId = "" /\ cq[i].calls = {}
       /\ cq[i].pc \in {"begin", "upload", "write"} => cq[i].written = Null
       /\ cq[i].pc \in {"upload", "write", "qr"}
            => \E n \in 1..Len(reserved) : reserved[n] = cq[i].uniqueId
  /\ Ended("onSubmit")
       => /\ InOrder(last)
          /\ last.outcome = "success" => last.written # Null /\ db[last.uniqueId] # Null

\* A create submit with a media and an audio file has succeeded in custom mode
\* and its record holds the two URLs the endpoint returned.
CreatedWithReturnedUrls ==
  /\ Ended("onSubmit") /\ last.outcome = "success"
  /\ last.provider = "custom" /\ last.media = MediaFile
  /\ last.written.mediaUrl = <<"https://giit-upload", last.uniqueId, "file1">>
  /\ last.written.audioUrl = <<"https://giit-upload", last.uniqueId, "file2">>

\* A step in which a handler run ends: it leaves the runs in flight with one
\* outcome, and the busy flag of the form that started it is cleared.
EndsCleanly ==
  /\ (isUnlocked' /\ Len(cq') < Len(cq))
       => /\ \E i \in 1..Len(cq) :
               /\ cq' = RemoveAt(cq, i)
               /\ cq[i].mounted => ~isLoading'
          /\ last'.op = "onSubmit" /\ last'.outcome \in {"success", "failed"}
          /\ UNCHANGED <<fq, uq>>
  /\ (isUnlocked' /\ Len(fq') < Len(fq))
       => /\ \E i \in 1..Len(fq) :
               /\ fq' = RemoveAt(fq, i)
               /\ fq[i].mounted => ~isFetching'
          /\ last'.op = "handleFetchData" /\ last'.outcome \in {"loaded", "notFound", "error"}
          /\ UNCHANGED <<cq, uq>>
  /\ (isUnlocked' /\ Len(uq') < Len(uq))
       => /\ \E i \in 1..Len(uq) :
               /\ uq' = RemoveAt(uq, i)
               /\ uq[i].pc # "begin"
               /\ uq[i].mounted => ~isUpdating'
          /\ last'.op = "onUpdate" /\ last'.outcome \in {"updated", "noChanges", "failed"}
          /\ UNCHANGED <<cq, fq>>

CreateWrites(i) ==
  /\ cq[i].pc = "write"
  /\ db' # db
  /\ \/ cq' = RemoveAt(cq, i)
     \/ Len(cq') = Len(cq) /\ cq'[i].pc = "qr"

\* C15: a create submit writes its record once, under the identifier it
\* reserved, and that identifier holds no record before the write.
AssignedOnce ==
  [][/\ \A i \in 1..Len(cq) :
          CreateWrites(i)
            => /\ cq[i].written = Null
               /\ \E n \in 1..Len(reserved) : reserved[n] = cq[i].uniqueId
               /\ \A j \in 1..Len(cq) : j # i => cq[j].uniqueId # cq[i].uniqueId
               /\ db[cq[i].uniqueId] = Null
               /\ db'[cq[i].uniqueId] # Null
               /\ \A k \in Ids \ {cq[i].uniqueId} : db'[k] = db[k]
     /\ (db' # db /\ uq' = uq) => \E i \in 1..Len(cq) : CreateWrites(i)]_vars

\* Two create submits have each written their record under their own key.
TwoRecordsCreated ==
  /\ Len(reserved) >= 2
  /\ db[reserved[1]] # Null /\ db[reserved[2]] # Null
  /\ created[reserved[1]] # Null /\ created[reserved[2]] # Null
  /\ Ended("onSubmit") /\ last.outcome = "success"

\* The upload calls of the edit submit that ended were made for chosen files only.
UploadsOnlyForChosen ==
  \A c \in last.calls :
    IF c.mode = "firebase"
    THEN \/ last.media # NoFile /\ c.type = last.media.type
         \/ last.audio # NoFile /\ c.type = last.audio.type
    ELSE /\ (last.media = NoFile => c.file1 = NoFile)
         /\ (last.audio = NoFile => c.file2 = NoFile)

\* C16: an edit submit uploads media and audio only for a slot in which a new
\* file was chosen, and for a slot without a new file the update map has no key
\* for the URL of that slot.
UntouchedSlotNotSent ==
  Ended("onUpdate")
    => /\ UploadsOnlyForChosen
       /\ (last.outcome = "updated" /\ last.media = NoFile)
            => "mediaUrl" \notin DOMAIN last.updates
       /\ (last.outcome = "updated" /\ last.audio = NoFile)
            => "audioUrl" \notin DOMAIN last.updates

\* A step in which the edit submit at position i of the submits in flight ends
\* with its update() done.
UpdateSucceeds(i) ==
  /\ isUnlocked'
  /\ uq[i].pc = "write"
  /\ uq' = RemoveAt(uq, i)
  /\ last'.op = "onUpdate" /\ last'.outcome = "updated"

\* C17: a store update merges: the record at the key has the given value for
\* each field of the update map and keeps the value of every other field, and
\* no other key changes.
UpdateMerges ==
  [][\A i \in 1..Len(uq) :
       UpdateSucceeds(i)
         => LET k == uq[i].id
                u == last'.updates
            IN /\ DOMAIN db'[k] = DOMAIN db[k] \cup DOMAIN u
               /\ \A f \in DOMAIN u : db'[k][f] = u[f]
               /\ \A f \in DOMAIN db[k] \ DOMAIN u : db'[k][f] = db[k][f]
               /\ \A j \in Ids \ {k} : db'[j] = db[j]]_vars

\* An update of the enabled flag alone has been written and the record keeps
\* the name, the template and the URLs it had.
OtherFieldsKept ==
  /\ Ended("onUpdate") /\ last.outcome = "updated"
  /\ DOMAIN last.updates = {"enabled"}
  /\ db[last.id] # Null /\ DOMAIN db[last.id] = DOMAIN last.loaded
  /\ {"name", "template", "mediaUrl"} \subseteq DOMAIN db[last.id]
  /\ db[last.id].enabled = last.updates.enabled
  /\ db[last.id].enabled # last.loaded.enabled
  /\ db[last.id].name = "Promo" /\ db[last.id].template = "template1"
  /\ db[last.id].mediaUrl = last.loaded.mediaUrl

\* The edit submit the operator would start next without touching the form.
Resubmitted ==
  [dirty |-> dirtyFields(editForm', formDefaults'), values |-> editForm',
   mediaUrl |-> EmptyText, audioUrl |-> EmptyText, loadedData |-> loadedData']

GateStep ==
  /\ (~isUnlocked /\ isUnlocked') => pin = correctPin /\ pin' = ""
  /\ (~isUnlocked /\ pin # correctPin /\ pin' = "") => ~isUnlocked'
  /\ (isUnlocked /\ ~isUnlocked') => pin' = "" /\ InFlight' = 0 /\ last' = Null
  /\ ~isUnlocked => nOps' = nOps /\ InFlight' = 0 /\ db' = db

\* C19: the page starts locked, it is unlocked only by a PIN submit in which
\* the entered PIN equals the configured one, a submit of another PIN leaves it
\* locked with the entered PIN cleared, a page load locks it again, and no
\* create submit, fetch or edit submit starts or runs while it is locked.
UnlocksOnlyOnMatch ==
  /\ ~isUnlocked /\ InFlight = 0
  /\ [][GateStep]_vars

\* The page has been loaded again after the operator worked behind the gate; it
\* is locked and a PIN that is not the configured one has been entered.
LockedAgainAfterReload ==
  /\ ~isUnlocked /\ nOps > 0
  /\ pin # "" /\ pin # correctPin
  /\ InFlight = 0

\* C20: whenever the success dialog is shown, the identifier of the URL it
\* shows and copies is the one under which the create submit that opened it
\* wrote its record, and the QR codes encode the same URL.
DialogShowsWrittenId ==
  /\ showSuccessDialog => db[newId] # Null
  /\ (showSuccessDialog /\ Ended("onSubmit") /\ last.outcome = "success")
       => /\ newId = last.uniqueId
          /\ createRev = "qr" => qrCodes = baseUrl \o newId
  /\ (showSuccessDialog /\ Ended("copyToClipboard"))
       => /\ last.text = baseUrl \o newId
          /\ createRev = "qr" => qrCodes = last.text

\* C21: a fetch that starts clears the loaded record and the selected files,
\* and update() is called only while a record is loaded and no fetch is in
\* flight.
UpdateOnlyWhileLoaded ==
  [][/\ Len(fq') > Len(fq)
          => /\ loadedData' = Null
             /\ editRev = "partial" => editFiles' = initialFiles
     /\ \A i \in 1..Len(uq) :
          UpdateSucceeds(i) => loadedData # Null /\ fq = <<>>]_vars

\* The request c carries the chosen file in the field of its slot, under the
\* name of its role and with its content type, and nothing when none was chosen.
Carries(sent, role, file) ==
  IF file = NoFile THEN sent = NoFile
  ELSE sent # NoFile /\ sent.type = file.type /\ sent.name[1] = role

\* The upload requests of a submit w for the record key in custom mode.
OneMultipartRequest(w, key) ==
  IF w.media = NoFile /\ w.audio = NoFile
  THEN w.calls = {}
  ELSE /\ Cardinality(w.calls) = 1
       /\ \A c \in w.calls :
            /\ c.mode = "custom" /\ c.folder = key
            /\ Carries(c.file1, "media", w.media)
            /\ Carries(c.file2, "audio", w.audio)

\* C22: in custom mode a create or edit submit with a media or an audio file
\* issues exactly one multipart request, with folder = the record identifier,
\* the media file as file1 and the audio file as file2 when present; a submit
\* with neither issues no upload request.
SingleMultipartRequest ==
  /\ (Ended("onSubmit") /\ last.provider = "custom")
       => OneMultipartRequest(last, last.uniqueId)
  /\ (Ended("onUpdate") /\ last.provider = "custom" /\ last.outcome # "ignored")
       => OneMultipartRequest(last, last.id)
  /\ \A i \in 1..Len(cq) :
       (cq[i].provider = "custom" /\ cq[i].pc \in {"write", "qr"})
         => OneMultipartRequest(cq[i], cq[i].uniqueId)
  /\ \A i \in 1..Len(uq) :
       (uq[i].provider = "custom" /\ uq[i].pc = "write")
         => OneMultipartRequest(uq[i], uq[i].id)

\* An edit submit with a new audio file and no media file has sent its one
\* request in custom mode: file2 is the audio file and there is no file1.
AudioOnlyRequestSent ==
  /\ Ended("onUpdate") /\ last.provider = "custom" /\ last.outcome = "updated"
  /\ last.media = NoFile /\ last.audio = AudioFile
  /\ \E c \in last.calls : c.file1 = NoFile /\ c.file2 # NoFile /\ c.folder = last.id

\* The create submit that ended succeeded, and the endpoint returned a URL for
\* each file it was sent.
CreatedWithEveryUrl ==
  /\ Ended("onSubmit") /\ last.outcome = "success"
  /\ last.response # Null
       => /\ last.media # NoFile => last.response.body.file1URL # EmptyText
          /\ last.audio # NoFile => last.response.body.file2URL # EmptyText

\* C23: with every upload succeeding and returning a URL, the record a create
\* submit writes has the same keys and the same empty or non-empty URL fields
\* in both storage modes: they are decided by the files chosen alone.
ModesInterchangeable ==
  CreatedWithEveryUrl
    => /\ DOMAIN last.written =
            {"name", "template", "enabled", "mute", "mediaUrl", "audioUrl"}
              \cup (IF createRev = "qr" THEN {"srtContent"} ELSE {"srtUrl"})
       /\ (last.written.mediaUrl # EmptyText) = (last.media # NoFile)
       /\ (last.written.audioUrl # EmptyText) = (last.audio # NoFile)
       /\ createRev = "srtUrl" => (last.written.srtUrl # EmptyText) = (last.srt # NoFile)

\* Every upload the submit w made to the managed object store for the record
\* key went to messages/<key>/<role>.<extension>.
PathsUnderKey(w, key) ==
  \A c \in w.calls :
    c.mode = "firebase"
      => /\ Len(c.path) = 4
         /\ c.path[1] = "messages" /\ c.path[2] = key
         /\ c.path[3] \in {"media", "audio", "srt"}

\* C24: in managed object store mode every upload of a create or edit submit
\* targets messages/<record identifier>/<role>.<extension>, so uploads for two
\* record identifiers never share a path.
PathsNamespacedByRecord ==
  /\ Ended("onSubmit") => PathsUnderKey(last, last.uniqueId)
  /\ Ended("onUpdate") => PathsUnderKey(last, last.id)
  /\ \A i \in 1..Len(cq) : PathsUnderKey(cq[i], cq[i].uniqueId)
  /\ \A i \in 1..Len(uq) : PathsUnderKey(uq[i], uq[i].id)

\* C25: an edit submit is made for the identifier from which the loaded record
\* was fetched: when the handler that ended last is the fetch that loaded the
\* record on screen, the submit that starts takes the key of that fetch.
UpdateKeyIsFetchedKey ==
  [][(/\ Len(uq') = Len(uq) + 1
      /\ Ended("handleFetchData") /\ last.outcome = "loaded" /\ last.mounted
      /\ last.loadedData = loadedData)
       => uq'[Len(uq')].id = last.key]_vars

\* C26: when a create submit ends in the failed outcome, the store holds no
\* record under the identifier the submit reserved.
FailedCreateStoresNothing ==
  (Ended("onSubmit") /\ last.outcome = "failed" /\ last.uniqueId # "")
    => db[last.uniqueId] = Null

\* C27: a create submit that ends in success with a media file (an audio file)
\* selected has written a record with a non-empty mediaUrl (audioUrl).
SelectedFileHasUrl ==
  (Ended("onSubmit") /\ last.outcome = "success")
    => /\ last.media # NoFile => last.written.mediaUrl # EmptyText
       /\ last.audio # NoFile => last.written.audioUrl # EmptyText

\* C28: storageProvider is "firebase" or "custom" in every state, what is
\* persisted is nothing or one of the two, and once the operator has made a
\* selection the provider in use is the persisted one, page loads included.
ProviderIsValid ==
  /\ storageProvider \in {"firebase", "custom"}
  /\ savedProvider \in {"", "firebase", "custom"}
  /\ savedProvider # "" => storageProvider = savedProvider
  /\ savedProvider = "" => storageProvider = "firebase"

\* The page has been loaded again after the operator selected the custom
\* backend, and the selection is in use.
ProviderRestored ==
  /\ ~isUnlocked /\ last = Null /\ nOps > 0
  /\ savedProvider = "custom" /\ storageProvider = "custom"

\* C29 (its second half): isFetching is true in every state in which a fetch
\* of the form on screen is in flight.
BusyWhileFetching ==
  (\E i \in 1..Len(fq) : fq[i].mounted) => isFetching

\* C30: every field of the later edit form whose value differs from the loaded
\* one is in the update map with its current value.
DirtyFieldsWritten ==
  (Ended("onUpdate") /\ last.rev = "partial" /\ last.outcome \in {"updated", "noChanges"})
    => \A k \in last.dirty :
         /\ k \in DOMAIN last.updates
         /\ last.updates[k] = last.values[k]

====
